---- MODULE Spec2Model ----
(***************************************************************************)
(* keg: the storage core of an LSM key-value engine.                       *)
(*   src/src/memtable.rs   MemTable: sorted vector with binary search      *)
(*   src/src/lib/wal.rs    WAL: append-only log, iterator, recovery        *)
(*   src/src/lib.rs        get_current_timestamp, files_with_ext           *)
(*                                                                         *)
(* Byte sequences are sequences of naturals below 256.  An Option<T> is a  *)
(* sequence of length 0 (None) or 1 (Some).                                *)
(***************************************************************************)
EXTENDS Integers, Sequences, FiniteSets, TLC

VARIABLES
    entries,    \* MemTable.entries: Vec<MemTableEntry>
    size,       \* MemTable.size
    cap,        \* MemTable.cap
    calls,      \* history: the set/delete calls applied to the MemTable, in call order
    clock,      \* the value get_current_timestamp() returns (milliseconds)
    fs,         \* the directory: timestamp n of a file <n>.wal -> [cache, disk]
    wal,        \* Option<WAL>: the open WAL [path, buf, fresh, linked]
    reader,     \* WALIterator.reader: the bytes of the file not yet consumed
    yielded,    \* the entries the iterator has returned so far
    pc,         \* position of the running operation
    result,     \* result of the last operation: "none", "ok", "err" or "panic"
    logged,     \* history: file -> the records whose encoding was written to it
    flushed,    \* history: file -> the records appended before a flush() that returned Ok
    wal_files,  \* load_from_dir: the sorted Vec<PathBuf> of the .wal files found
    fidx,       \* load_from_dir: index of the file the running loop is at
    skipped,    \* history: the files load_from_dir could not open
    origin,     \* history: file -> its records when load_from_dir first listed the directory
    runs,       \* the number of load_from_dir calls started
    faulted     \* whether the environment has injected its fault (an I/O error or a crash)

memVars == <<entries, size, cap>>
walVars == <<clock, fs, wal, logged, flushed, faulted>>
iterVars == <<reader, yielded>>
recVars == <<wal_files, fidx, skipped, origin, runs>>
vars == <<entries, size, cap, calls, clock, fs, wal, reader, yielded, pc, result,
          logged, flushed, wal_files, fidx, skipped, origin, runs, faulted>>

(***************************************************************************)
(* Bounds and input sets                                                   *)
(***************************************************************************)
MaxCalls == 3

\* A value longer than key_len + 17, so that the size arithmetic can be exercised.
BigValue == [i \in 1..20 |-> 7]

Keys == {<< >>, <<1>>, <<1, 0>>, <<2>>}
Values == {<< >>, <<5>>, BigValue}
Timestamps == {1, 2}

None == << >>
Some(x) == <<x>>

(***************************************************************************)
(* MemTable (src/src/memtable.rs)                                          *)
(***************************************************************************)
MEM_TABLE_SIZE == 4096

\* Ord for [u8]: byte-lexicographic, a proper prefix is smaller.
RECURSIVE BytesLess(_, _)
BytesLess(a, b) ==
    IF b = << >> THEN FALSE
    ELSE IF a = << >> THEN TRUE
    ELSE IF Head(a) # Head(b) THEN Head(a) < Head(b)
    ELSE BytesLess(Tail(a), Tail(b))

\* slice::binary_search_by_key over es[lo+1 .. hi] (1-based), as a record
\* [found, idx]: Ok(idx) when found, Err(idx) with the insertion index otherwise.
\* idx is 0-based as in the source.
RECURSIVE BinarySearch(_, _, _, _)
BinarySearch(es, key, lo, hi) ==
    IF lo >= hi THEN [found |-> FALSE, idx |-> lo]
    ELSE LET mid == lo + ((hi - lo) \div 2)
             k   == es[mid + 1].key
         IN  IF k = key THEN [found |-> TRUE, idx |-> mid]
             ELSE IF BytesLess(k, key) THEN BinarySearch(es, key, mid + 1, hi)
             ELSE BinarySearch(es, key, lo, mid)

\* Mutant of get_index: a miss always reports the end of the vector.
get_index_append(es, key) ==
    LET r == BinarySearch(es, key, 0, Len(es))
    IN  IF r.found THEN r ELSE [found |-> FALSE, idx |-> Len(es)]

get_index(es, key) == BinarySearch(es, key, 0, Len(es))

\* Mutant of VecInsert: the element at idx is overwritten instead of shifted.
VecOverwrite(es, idx, e) ==
    IF idx < Len(es) THEN [es EXCEPT ![idx + 1] = e] ELSE Append(es, e)

\* Vec::insert(idx, e), idx 0-based.
VecInsert(es, idx, e) == SubSeq(es, 1, idx) \o <<e>> \o SubSeq(es, idx + 1, Len(es))

MemTableNew == [entries |-> << >>, size |-> 0, cap |-> MEM_TABLE_SIZE]

SetEntry(key, value, timestamp) ==
    [key |-> key, value |-> Some(value), timestamp |-> timestamp, deleted |-> FALSE]

DeleteEntry(key, timestamp) ==
    [key |-> key, value |-> None, timestamp |-> timestamp, deleted |-> TRUE]

\* MemTable::set on a table t = [entries, size, cap].
MemSet(t, key, value, timestamp) ==
    LET entry == SetEntry(key, value, timestamp)
        r     == get_index(t.entries, key)
    IN  IF r.found
        THEN LET old == t.entries[r.idx + 1].value
                 sz  == IF old # None
                        THEN IF Len(value) < Len(old[1])
                             THEN t.size - (Len(old[1]) - Len(value))
                             ELSE t.size + (Len(value) - Len(old[1]))
                        ELSE t.size
             IN  [t EXCEPT !.entries = [t.entries EXCEPT ![r.idx + 1] = entry],
                           !.size = sz]
        ELSE [t EXCEPT !.entries = VecInsert(t.entries, r.idx, entry),
                       !.size = t.size + Len(key) + Len(value) + 16 + 1]

\* Mutant of MemDelete: a hit with an older timestamp is ignored
\* (last-timestamp-wins instead of replace in place).
MemDeleteIfNewer(t, key, timestamp) ==
    LET entry == DeleteEntry(key, timestamp)
        r     == get_index(t.entries, key)
    IN  IF r.found
        THEN IF timestamp < t.entries[r.idx + 1].timestamp
             THEN t
             ELSE LET old == t.entries[r.idx + 1].value
                      sz  == IF old # None THEN t.size - Len(old[1]) ELSE t.size
                  IN  [t EXCEPT !.entries = [t.entries EXCEPT ![r.idx + 1] = entry],
                                !.size = sz]
        ELSE [t EXCEPT !.entries = VecInsert(t.entries, r.idx, entry),
                       !.size = t.size + Len(key) + 16 + 1]

\* Mutant of MemDelete: cap is treated as the room left and shrinks with
\* every tombstone inserted.
MemDeleteShrinkCap(t, key, timestamp) ==
    LET entry == DeleteEntry(key, timestamp)
        r     == get_index(t.entries, key)
    IN  IF r.found
        THEN LET old == t.entries[r.idx + 1].value
                 sz  == IF old # None THEN t.size - Len(old[1]) ELSE t.size
             IN  [t EXCEPT !.entries = [t.entries EXCEPT ![r.idx + 1] = entry],
                           !.size = sz]
        ELSE [t EXCEPT !.entries = VecInsert(t.entries, r.idx, entry),
                       !.size = t.size + Len(key) + 16 + 1,
                       !.cap = t.cap - (Len(key) + 16 + 1)]

\* Mutant of MemDelete: a hit leaves size as it is.
MemDeleteKeepSize(t, key, timestamp) ==
    LET entry == DeleteEntry(key, timestamp)
        r     == get_index(t.entries, key)
    IN  IF r.found
        THEN [t EXCEPT !.entries = [t.entries EXCEPT ![r.idx + 1] = entry]]
        ELSE [t EXCEPT !.entries = VecInsert(t.entries, r.idx, entry),
                       !.size = t.size + Len(key) + 16 + 1]

\* MemTable::delete.
MemDelete(t, key, timestamp) ==
    LET entry == DeleteEntry(key, timestamp)
        r     == get_index(t.entries, key)
    IN  IF r.found
        THEN LET old == t.entries[r.idx + 1].value
                 sz  == IF old # None THEN t.size - Len(old[1]) ELSE t.size
             IN  [t EXCEPT !.entries = [t.entries EXCEPT ![r.idx + 1] = entry],
                           !.size = sz]
        ELSE [t EXCEPT !.entries = VecInsert(t.entries, r.idx, entry),
                       !.size = t.size + Len(key) + 16 + 1]

\* MemTable::get: Option<&MemTableEntry>.
MemGet(es, key) ==
    LET r == get_index(es, key)
    IN  IF r.found THEN Some(es[r.idx + 1]) ELSE None

tbl == [entries |-> entries, size |-> size, cap |-> cap]

InitMem ==
    /\ entries = MemTableNew.entries
    /\ size = MemTableNew.size
    /\ cap = MemTableNew.cap
    /\ calls = << >>
    /\ clock = 0
    /\ fs = << >>
    /\ wal = None
    /\ reader = << >>
    /\ yielded = << >>
    /\ pc = "idle"
    /\ result = "none"
    /\ logged = << >>
    /\ flushed = << >>
    /\ wal_files = << >>
    /\ fidx = 0
    /\ skipped = {}
    /\ origin = << >>
    /\ runs = 0
    /\ faulted = FALSE

\* `self.size -= v.len() - value.len()` (set) is applied to a size smaller
\* than the amount subtracted.
SetOverflows(t, key, value) ==
    LET r == get_index(t.entries, key)
    IN  /\ r.found
        /\ t.entries[r.idx + 1].value # None
        /\ Len(value) < Len(t.entries[r.idx + 1].value[1])
        /\ t.size >= 0
        /\ t.size < Len(t.entries[r.idx + 1].value[1]) - Len(value)

\* `self.size -= value.len()` (delete) is applied to a size smaller than the
\* amount subtracted.
DeleteOverflows(t, key) ==
    LET r == get_index(t.entries, key)
    IN  /\ r.found
        /\ t.entries[r.idx + 1].value # None
        /\ t.size >= 0
        /\ t.size < Len(t.entries[r.idx + 1].value[1])

\* A call of MemTable::set.  An overflowing subtraction panics before the
\* entry is replaced (overflow checks on: debug builds) or wraps (overflow
\* checks off: release builds); the wrapped size is kept as the representative
\* of the usize value modulo 2^64 nearest to 0, so a negative size n stands for
\* 2^64 + n and later additions and subtractions stay exact.
Set(key, value, timestamp) ==
    /\ Len(calls) < MaxCalls
    /\ result # "panic"
    /\ \/ /\ SetOverflows(tbl, key, value)
          /\ result' = "panic"
          /\ UNCHANGED <<memVars, calls>>
       \/ /\ LET t == MemSet(tbl, key, value, timestamp)
             IN  /\ entries' = t.entries
                 /\ size' = t.size
                 /\ cap' = t.cap
          /\ calls' = Append(calls, SetEntry(key, value, timestamp))
          /\ UNCHANGED result
    /\ UNCHANGED <<walVars, iterVars, pc, recVars>>

\* A call of MemTable::delete; overflow as in Set.
Delete(key, timestamp) ==
    /\ Len(calls) < MaxCalls
    /\ result # "panic"
    /\ \/ /\ DeleteOverflows(tbl, key)
          /\ result' = "panic"
          /\ UNCHANGED <<memVars, calls>>
       \/ /\ LET t == MemDelete(tbl, key, timestamp)
             IN  /\ entries' = t.entries
                 /\ size' = t.size
                 /\ cap' = t.cap
          /\ calls' = Append(calls, DeleteEntry(key, timestamp))
          /\ UNCHANGED result
    /\ UNCHANGED <<walVars, iterVars, pc, recVars>>

MemSetStep == \E k \in Keys, v \in Values, t \in Timestamps : Set(k, v, t)
MemDeleteStep == \E k \in Keys, t \in Timestamps : Delete(k, t)

NextMem == MemSetStep \/ MemDeleteStep

SpecMem == InitMem /\ [][NextMem]_vars

(***************************************************************************)
(* Claims about the MemTable, checked under SpecMem                        *)
(***************************************************************************)
\* The calls of the history that used key k, in call order.
CallsFor(k) == SelectSeq(calls, LAMBDA c : c.key = k)

Last(s) == s[Len(s)]

\* The call with the highest timestamp in cs; among equal highest, the last.
HighestTimestampCall(cs) ==
    LET top == CHOOSE i \in 1..Len(cs) :
                   /\ \A j \in 1..Len(cs) : cs[j].timestamp <= cs[i].timestamp
                   /\ \A j \in (i + 1)..Len(cs) : cs[j].timestamp < cs[i].timestamp
    IN  cs[top]

\* C1: after any sequence of set and delete calls, entries() is strictly
\* ascending by key in byte-lexicographic order, and no two entries have the
\* same key.
C1_EntriesStrictlyAscending ==
    /\ \A i \in 1..(Len(entries) - 1) : BytesLess(entries[i].key, entries[i + 1].key)
    /\ \A i, j \in 1..Len(entries) : entries[i].key = entries[j].key => i = j

\* C1 witness: three distinct keys were inserted in descending key order.
C1_Witness ==
    /\ Len(calls) = 3
    /\ Len(entries) = 3
    /\ BytesLess(calls[3].key, calls[2].key)
    /\ BytesLess(calls[2].key, calls[1].key)

\* C2: get(k) is absent iff no call used key k; otherwise it is exactly the
\* entry written by the most recent call for k in call order (value, timestamp
\* and deleted flag), whatever the timestamps are.
C2_GetIsLastCall ==
    \A k \in Keys :
        LET cs == CallsFor(k)
        IN  IF cs = << >>
            THEN MemGet(entries, k) = None
            ELSE MemGet(entries, k) = Some(Last(cs))

\* C2 witness: a set followed by a delete of the same key with an older
\* timestamp; get reports the tombstone.
C2_Witness ==
    \E k \in Keys :
        LET cs == CallsFor(k)
        IN  /\ Len(cs) = 2
            /\ ~cs[1].deleted
            /\ cs[2].deleted
            /\ cs[2].timestamp < cs[1].timestamp
            /\ MemGet(entries, k) = Some(DeleteEntry(k, cs[2].timestamp))

\* C3: for any key, get(k) is the entry written by the call with the highest
\* timestamp among all calls for k, and among equal highest timestamps the one
\* applied last.
C3_HighestTimestampGoverns ==
    \A k \in Keys :
        LET cs == CallsFor(k)
        IN  cs # << >> => MemGet(entries, k) = Some(HighestTimestampCall(cs))

\* C13: the capacity is fixed: cap() returns 4096 (MEM_TABLE_SIZE) in every
\* reachable state; no set or delete changes it.
C13_CapIsFixed ==
    /\ cap = 4096
    /\ cap = MEM_TABLE_SIZE

\* C13 witness: sets and a delete were applied, the table holds three
\* entries and cap() is still 4096.
C13_Witness ==
    /\ Len(calls) = 3
    /\ Len(entries) = 3
    /\ \E i, j \in 1..3 : calls[i].deleted /\ ~calls[j].deleted
    /\ size > 0
    /\ cap = 4096

\* The length of the value of an entry found by get; 0 for a tombstone.
OldValueLen(found) == IF found[1].value = None THEN 0 ELSE Len(found[1].value[1])

\* C14: a set(key, value, ts) that returns changes size as follows: when the
\* key is absent, size increases by key_len + value_len + 17; when the key is
\* present, size changes by exactly new value length - old value length, the
\* old value length of a tombstone being 0.
C14_SetSizeAccounting ==
    [][(calls' # calls /\ ~Last(calls').deleted)
          => LET c   == Last(calls')
                 old == MemGet(entries, c.key)
             IN  IF old = None
                 THEN size' = size + Len(c.key) + Len(c.value[1]) + 17
                 ELSE size' = size + Len(c.value[1]) - OldValueLen(old)]_vars

C16_OtherKeysUnchanged ==
    [][calls' # calls
          => LET c == Last(calls')
             IN  /\ \A k \in Keys \ {c.key} : MemGet(entries', k) = MemGet(entries, k)
                 /\ Len(entries') = Len(entries)
                                       + (IF MemGet(entries, c.key) = None THEN 1 ELSE 0)
                 /\ Len(entries') = Cardinality({calls'[i].key : i \in 1..Len(calls')})]_vars

\* C16 witness: two keys are in the table; the last call replaced the entry
\* of the smaller key and the entry of the other key is the one its call wrote.
C16_Witness ==
    /\ Len(calls) = 3
    /\ calls[1].key = << >>
    /\ calls[2] = SetEntry(<<2>>, <<5>>, 2)
    /\ calls[3].key = << >>
    /\ Len(entries) = 2
    /\ MemGet(entries, <<2>>) = Some(calls[2])

\* C17: no sequence of set and delete calls makes size underflow: every
\* subtraction from size is applied to a size at least as large as the amount
\* subtracted, so no call panics on overflow and size never wraps below 0.
C17_SizeNeverUnderflows ==
    /\ result # "panic"
    /\ size >= 0

(***************************************************************************)
(* WAL record encoding (src/src/lib/wal.rs)                                *)
(***************************************************************************)
\* Records of the log, of the same shape as a WALEntry: sets and deletes,
\* empty and non-empty keys and values, one- and two-byte timestamps.
WalRecords ==
    {SetEntry(<< >>, << >>, 1), SetEntry(<<1>>, <<5>>, 258), SetEntry(<<1>>, << >>, 1),
     SetEntry(<< >>, <<5>>, 258), DeleteEntry(<< >>, 258), DeleteEntry(<<1>>, 1)}

\* Sequences over S of length at most n.
SeqsUpTo(S, n) == UNION {[1..m -> S] : m \in 0..n}

\* Decoded integers saturate here: every value below it is exact, and it is
\* larger than any file of the model.
UsizeCap == 4194304

\* Mutant of ToLeBytes: most significant byte first.
RECURSIVE ToBeBytes(_, _)
ToBeBytes(n, w) ==
    IF w = 0 THEN << >> ELSE ToBeBytes(n \div 256, w - 1) \o <<n % 256>>

\* uN::to_le_bytes: w bytes, least significant first.
RECURSIVE ToLeBytes(_, _)
ToLeBytes(n, w) ==
    IF w = 0 THEN << >> ELSE <<n % 256>> \o ToLeBytes(n \div 256, w - 1)

\* uN::from_le_bytes, saturating at UsizeCap.
RECURSIVE FromLeBytes(_)
FromLeBytes(bytes) ==
    IF bytes = << >> THEN 0
    ELSE LET rest == FromLeBytes(Tail(bytes))
             n    == Head(bytes) + 256 * rest
         IN  IF n > UsizeCap THEN UsizeCap ELSE n

\* Mutant of EncodeSet: the key is written before the value length.
EncodeSetKeyFirst(key, value, timestamp) ==
    ToLeBytes(Len(key), 8) \o <<0>> \o key \o ToLeBytes(Len(value), 8)
        \o value \o ToLeBytes(timestamp, 16)

\* The bytes WAL::set hands to write_all, in call order.
EncodeSet(key, value, timestamp) ==
    ToLeBytes(Len(key), 8) \o <<0>> \o ToLeBytes(Len(value), 8)
        \o key \o value \o ToLeBytes(timestamp, 16)

\* The bytes WAL::delete hands to write_all, in call order.
EncodeDelete(key, timestamp) ==
    ToLeBytes(Len(key), 8) \o <<1>> \o key \o ToLeBytes(timestamp, 16)

Encode(rec) ==
    IF rec.deleted THEN EncodeDelete(rec.key, rec.timestamp)
    ELSE EncodeSet(rec.key, rec.value[1], rec.timestamp)

RECURSIVE EncodeAll(_)
EncodeAll(recs) ==
    IF recs = << >> THEN << >> ELSE Encode(Head(recs)) \o EncodeAll(Tail(recs))

(***************************************************************************)
(* WALIterator (src/src/lib/wal.rs)                                        *)
(***************************************************************************)
\* Mutant of ReadExact: a short read returns what is left, padded with the
\* zeroes the buffer was allocated with.
ReadShort(bytes, n) ==
    IF Len(bytes) < n
    THEN [ok |-> TRUE, data |-> bytes \o [i \in 1..(n - Len(bytes)) |-> 0],
          rest |-> << >>]
    ELSE [ok |-> TRUE, data |-> SubSeq(bytes, 1, n),
          rest |-> SubSeq(bytes, n + 1, Len(bytes))]

\* Read::read_exact of n bytes from a buffered reader holding `bytes`: an
\* error (and everything consumed) when fewer than n bytes are left.
ReadExact(bytes, n) ==
    IF Len(bytes) < n
    THEN [ok |-> FALSE, data |-> << >>, rest |-> << >>]
    ELSE [ok |-> TRUE, data |-> SubSeq(bytes, 1, n),
          rest |-> SubSeq(bytes, n + 1, Len(bytes))]

IterNone == [kind |-> "none", entry |-> None, rest |-> << >>]
\* vec![0; n] with a length at or beyond UsizeCap: the allocation may abort the
\* process, or succeed and let the following read_exact fail.
IterAlloc == [kind |-> "alloc", entry |-> None, rest |-> << >>]
IterSome(e, rest) == [kind |-> "some", entry |-> Some(e), rest |-> rest]

\* The tail of WALIterator::next: the 16 timestamp bytes and the entry.
NextTimestamp(bytes, key, value, deleted) ==
    LET rt == ReadExact(bytes, 16)
    IN  IF ~rt.ok THEN IterNone
        ELSE IterSome([key |-> key, value |-> value,
                       timestamp |-> FromLeBytes(rt.data), deleted |-> deleted],
                      rt.rest)

\* WALIterator::next on a reader holding `bytes`.
WALIteratorNext(bytes) ==
    LET rl == ReadExact(bytes, 8)
    IN  IF ~rl.ok THEN IterNone
        ELSE
        LET key_len == FromLeBytes(rl.data)
            rb      == ReadExact(rl.rest, 1)
        IN  IF ~rb.ok THEN IterNone
            ELSE
            LET deleted == rb.data[1] # 0
            IN  IF key_len >= UsizeCap THEN IterAlloc
                ELSE IF deleted
                THEN LET rk == ReadExact(rb.rest, key_len)
                     IN  IF ~rk.ok THEN IterNone
                         ELSE NextTimestamp(rk.rest, rk.data, None, deleted)
                ELSE LET rv == ReadExact(rb.rest, 8)
                     IN  IF ~rv.ok THEN IterNone
                         ELSE
                         LET value_len == FromLeBytes(rv.data)
                             rk        == ReadExact(rv.rest, key_len)
                         IN  IF ~rk.ok THEN IterNone
                             ELSE IF value_len >= UsizeCap THEN IterAlloc
                             ELSE LET rd == ReadExact(rk.rest, value_len)
                                  IN  IF ~rd.ok THEN IterNone
                                      ELSE NextTimestamp(rd.rest, rk.data,
                                                         Some(rd.data), deleted)

\* `for entry in iterator`: next() until it returns None.
RECURSIVE Iterate(_)
Iterate(bytes) ==
    LET r == WALIteratorNext(bytes)
    IN  IF r.kind = "some"
        THEN LET more == Iterate(r.rest)
             IN  [more EXCEPT !.entries = <<r.entry[1]>> \o more.entries]
        ELSE [entries |-> << >>, kind |-> r.kind]

File(bytes) == [cache |-> bytes, disk |-> bytes]

(***************************************************************************)
(* SpecIter: WALIterator over a file holding records and a truncated tail  *)
(***************************************************************************)
MaxRecs == 2

InitIter ==
    /\ entries = MemTableNew.entries
    /\ size = MemTableNew.size
    /\ cap = MemTableNew.cap
    /\ calls = << >>
    /\ clock = 0
    /\ wal = None
    /\ \E recs \in SeqsUpTo(WalRecords, MaxRecs), extra \in WalRecords :
          \E cut \in 0..(Len(Encode(extra)) - 1) :
              LET content == EncodeAll(recs) \o SubSeq(Encode(extra), 1, cut)
              IN  /\ fs = (1 :> File(content))
                  /\ logged = (1 :> recs)
                  /\ flushed = (1 :> recs)
                  \* WALIterator::new(path): the reader is at the start of the file.
                  /\ reader = content
    /\ yielded = << >>
    /\ pc = "iter"
    /\ result = "none"
    /\ wal_files = << >>
    /\ fidx = 0
    /\ skipped = {}
    /\ origin = << >>
    /\ runs = 0
    /\ faulted = FALSE

\* One call of WALIterator::next by the consuming loop.
IterNext ==
    /\ pc = "iter"
    /\ LET r == WALIteratorNext(reader)
       IN  IF r.kind = "some"
           THEN /\ yielded' = Append(yielded, r.entry[1])
                /\ reader' = r.rest
                /\ UNCHANGED <<pc, result>>
           ELSE /\ reader' = r.rest
                /\ pc' = "done"
                /\ \E abort \in BOOLEAN :
                      result' = IF r.kind = "alloc" /\ abort THEN "panic" ELSE "ok"
                /\ UNCHANGED yielded
    /\ UNCHANGED <<memVars, calls, walVars, recVars>>

NextIter == IterNext

SpecIter == InitIter /\ [][NextIter]_vars

\* C8: iterating a file whose content is the encoding of records r1..rn
\* followed by a strict prefix (possibly empty) of the encoding of one more
\* record yields exactly r1..rn in order and then ends, without an abort; the
\* truncated tail is never returned as a record.
C8_TruncatedTailEndsIteration ==
    /\ result # "panic"
    /\ Len(yielded) <= Len(logged[1])
    /\ yielded = SubSeq(logged[1], 1, Len(yielded))
    /\ pc = "done" => (yielded = logged[1] /\ result = "ok")

\* C8 witness: two records were returned and the iteration ended on a
\* non-empty truncated tail.
C8_Witness ==
    /\ pc = "done"
    /\ Len(yielded) = 2
    /\ Len(fs[1].cache) > Len(EncodeAll(yielded))

(***************************************************************************)
(* WAL: create, append, flush (src/src/lib/wal.rs)                         *)
(*                                                                         *)
(* A file has the bytes a reader sees (the kernel's page cache, `cache`)   *)
(* and the bytes on the device (`disk`, a prefix of cache: the files are   *)
(* append-only).  The BufWriter of a WAL holds the bytes written since the *)
(* last flush; the model's logs stay far below its 8 KiB capacity, so      *)
(* write_all only buffers and the file is written by flush (or by the      *)
(* BufWriter's drop) alone.                                                *)
(***************************************************************************)
MaxAppends == 2

\* An I/O error or a crash happens; a run has at most one (single-fault
\* assumption).
Fault == ~faulted /\ faulted' = TRUE

\* The file a path names, when the directory has it.
Exists(f) == f \in DOMAIN fs

LoggedOf(f) == IF f \in DOMAIN logged THEN logged[f] ELSE << >>

\* OpenOptions::new().append(true).create(true).open(path): the directory
\* after a successful open; an existing file is kept as it is.
OpenAppend(dir, f) == IF f \in DOMAIN dir THEN dir ELSE (f :> File(<< >>)) @@ dir

\* WAL::new(dir) returning Ok at the current clock value.  `fresh`, `pending`,
\* `appended` and `failed` are history fields of the handle.
WalNewOk ==
    /\ pc = "idle"
    /\ wal = None
    /\ fs' = OpenAppend(fs, clock)
    /\ wal' = Some([path |-> clock, buf |-> << >>, linked |-> TRUE,
                    fresh |-> ~Exists(clock), pending |-> << >>,
                    appended |-> << >>, failed |-> FALSE])
    /\ logged' = IF clock \in DOMAIN logged THEN logged ELSE (clock :> << >>) @@ logged
    /\ flushed' = IF clock \in DOMAIN flushed THEN flushed ELSE (clock :> << >>) @@ flushed
    /\ result' = "ok"
    /\ UNCHANGED <<memVars, calls, clock, iterVars, pc, faulted, recVars>>

\* WAL::new(dir) when the open fails: the `?` returns the error.
WalNewErr ==
    /\ pc = "idle"
    /\ wal = None
    /\ Fault
    /\ result' = "err"
    /\ UNCHANGED <<memVars, calls, clock, fs, wal, logged, flushed, iterVars, pc, recVars>>

\* The handle after write_all of the encoding of rec (buffered).
WalAppend(w, rec) ==
    [w EXCEPT !.buf = w.buf \o Encode(rec),
              !.pending = Append(w.pending, rec),
              !.appended = Append(w.appended, rec)]

CanAppend ==
    /\ wal # None
    /\ Len(LoggedOf(wal[1].path)) + Len(wal[1].pending) < MaxAppends

\* WAL::set(key, value, timestamp).
WalSet(key, value, timestamp) ==
    /\ pc = "idle"
    /\ CanAppend
    /\ wal' = Some(WalAppend(wal[1], SetEntry(key, value, timestamp)))
    /\ result' = "ok"
    /\ UNCHANGED <<memVars, calls, clock, fs, logged, flushed, faulted, iterVars, pc, recVars>>

\* WAL::delete(key, timestamp).
WalDelete(key, timestamp) ==
    /\ pc = "idle"
    /\ CanAppend
    /\ wal' = Some(WalAppend(wal[1], DeleteEntry(key, timestamp)))
    /\ result' = "ok"
    /\ UNCHANGED <<memVars, calls, clock, fs, logged, flushed, faulted, iterVars, pc, recVars>>

\* The directory after the bytes were written through a handle: they reach
\* the page cache of the file the handle has open, which the directory shows
\* as long as the file was not unlinked.
WriteThrough(dir, w, bytes) ==
    IF w.linked /\ w.path \in DOMAIN dir
    THEN [dir EXCEPT ![w.path].cache = dir[w.path].cache \o bytes]
    ELSE dir

\* The handle after BufWriter::flush returned Ok.
FlushedHandle(w) == [w EXCEPT !.buf = << >>, !.pending = << >>]

\* WAL::flush returning Ok: BufWriter::flush writes the buffer to the file;
\* File::flush does nothing more (no fsync).
WalFlushOk ==
    /\ pc = "idle"
    /\ wal # None
    /\ LET w == wal[1]
       IN  /\ fs' = WriteThrough(fs, FlushedHandle(w), w.buf)
           /\ wal' = Some(FlushedHandle(w))
           /\ logged' = [logged EXCEPT ![w.path] = logged[w.path] \o w.pending]
           /\ flushed' = [flushed EXCEPT ![w.path] = logged'[w.path]]
    /\ result' = "ok"
    /\ UNCHANGED <<memVars, calls, clock, faulted, iterVars, pc, recVars>>

\* WAL::flush returning Err: the write failed after n bytes of the buffer; the
\* BufWriter keeps the rest.
WalFlushErr ==
    /\ pc = "idle"
    /\ wal # None
    /\ wal[1].buf # << >>
    /\ Fault
    /\ LET w == wal[1]
       IN  \E n \in 0..(Len(w.buf) - 1) :
               /\ fs' = WriteThrough(fs, w, SubSeq(w.buf, 1, n))
               /\ wal' = Some([w EXCEPT !.buf = SubSeq(w.buf, n + 1, Len(w.buf)),
                                        !.failed = TRUE])
    /\ result' = "err"
    /\ UNCHANGED <<memVars, calls, clock, logged, flushed, iterVars, pc, recVars>>

\* The WAL goes out of scope: BufWriter's drop writes the buffer out.
WalDrop ==
    /\ pc = "idle"
    /\ wal # None
    /\ LET w == wal[1]
       IN  /\ fs' = WriteThrough(fs, w, w.buf)
           /\ logged' = [logged EXCEPT ![w.path] = logged[w.path] \o w.pending]
    /\ wal' = None
    /\ UNCHANGED <<memVars, calls, clock, flushed, faulted, iterVars, pc, result, recVars>>

\* The kernel writes the dirty page of a file to the device, whenever it
\* chooses (the files of the model are shorter than a page).
Writeback ==
    /\ \E f \in DOMAIN fs :
          /\ fs[f].disk # fs[f].cache
          /\ fs' = [fs EXCEPT ![f].disk = fs[f].cache]
    /\ UNCHANGED <<memVars, calls, clock, wal, logged, flushed, faulted, iterVars, pc, result, recVars>>

\* The machine stops (power loss, kernel crash): the process and its buffers
\* are gone, and each file holds what had reached the device.
Crash ==
    /\ pc = "idle"
    /\ Fault
    /\ fs' = [f \in DOMAIN fs |-> [fs[f] EXCEPT !.cache = fs[f].disk]]
    /\ wal' = None
    /\ result' = "none"
    /\ UNCHANGED <<memVars, calls, clock, logged, flushed, iterVars, pc, recVars>>

WalSetStep ==
    \E r \in WalRecords : ~r.deleted /\ WalSet(r.key, r.value[1], r.timestamp)

WalDeleteStep ==
    \E r \in WalRecords : r.deleted /\ WalDelete(r.key, r.timestamp)

InitWal == InitMem

NextWal ==
    \/ WalNewOk
    \/ WalNewErr
    \/ WalSetStep
    \/ WalDeleteStep
    \/ WalFlushOk
    \/ WalFlushErr
    \/ WalDrop
    \/ Writeback
    \/ Crash

SpecWal == InitWal /\ [][NextWal]_vars

(***************************************************************************)
(* Claims about WAL append and flush, checked under SpecWal                *)
(***************************************************************************)
IsPrefix(a, b) == Len(a) <= Len(b) /\ a = SubSeq(b, 1, Len(a))

\* C4: after any sequence of set and delete appends to a fresh WAL followed by
\* flush, every call having returned Ok, iterating the file yields exactly one
\* entry per append, in append order, each with the identical key, value (None
\* for a delete), timestamp and deleted flag; keys and values may be empty.
C4_WalRoundTrip ==
    (/\ wal # None
     /\ wal[1].fresh
     /\ ~wal[1].failed
     /\ wal[1].buf = << >>)
        => Iterate(fs[wal[1].path].cache) = [entries |-> wal[1].appended, kind |-> "none"]

\* C4 witness: a set with an empty key and an empty value and a delete were
\* appended to a fresh WAL and flushed.
C4_Witness ==
    /\ wal # None
    /\ wal[1].fresh
    /\ ~wal[1].failed
    /\ wal[1].buf = << >>
    /\ result = "ok"
    /\ Len(wal[1].appended) = 2
    /\ wal[1].appended[1] = SetEntry(<< >>, << >>, 1)
    /\ wal[1].appended[2].deleted
    /\ fs[wal[1].path].cache = EncodeAll(wal[1].appended)

\* C7: once flush() has returned Ok, every record appended to that WAL before
\* the flush is returned by iterating the file, at every later moment, a crash
\* included.
C7_FlushedRecordsAreDurable ==
    \A f \in DOMAIN fs : IsPrefix(flushed[f], Iterate(fs[f].cache).entries)

\* The w bytes of `bytes` from position `from` are the little-endian
\* rendering of n (n below 65536: the lengths and timestamps of the model).
LeField(bytes, from, w, n) ==
    /\ bytes[from] = n % 256
    /\ bytes[from + 1] = (n \div 256) % 256
    /\ \A i \in 2..(w - 1) : bytes[from + i] = 0

\* `bytes` is the field sequence of the records recs, one after the other:
\* key_len (8), tombstone (1), value_len (8, sets only), key, value (sets
\* only), timestamp (16); and next() on it returns the first record and leaves
\* the reader at the following one.
RECURSIVE LaidOut(_, _)
LaidOut(bytes, recs) ==
    IF recs = << >> THEN bytes = << >>
    ELSE LET r == Head(recs)
             k == Len(r.key)
             v == IF r.deleted THEN 0 ELSE Len(r.value[1])
             n == IF r.deleted THEN 25 + k ELSE 33 + k + v
             rest == SubSeq(bytes, n + 1, Len(bytes))
         IN  /\ Len(bytes) >= n
             /\ LeField(bytes, 1, 8, k)
             /\ bytes[9] = (IF r.deleted THEN 1 ELSE 0)
             /\ IF r.deleted
                THEN /\ SubSeq(bytes, 10, 9 + k) = r.key
                     /\ LeField(bytes, 10 + k, 16, r.timestamp)
                ELSE /\ LeField(bytes, 10, 8, v)
                     /\ SubSeq(bytes, 18, 17 + k) = r.key
                     /\ SubSeq(bytes, 18 + k, 17 + k + v) = r.value[1]
                     /\ LeField(bytes, 18 + k + v, 16, r.timestamp)
             /\ WALIteratorNext(bytes) = IterSome(r, rest)
             /\ LaidOut(rest, Tail(recs))

\* C12: each WAL record is laid out as key_len (8 bytes), tombstone (1 byte),
\* value_len (8 bytes, only when not a tombstone), key bytes, value bytes (only
\* when not a tombstone), timestamp (16 bytes), all integers little-endian: a
\* set record is 33 + key_len + value_len bytes, a delete record 25 + key_len
\* bytes, and the reader consumes the fields in that order.
C12_RecordLayout ==
    (wal # None /\ ~wal[1].failed) => LaidOut(wal[1].buf, wal[1].pending)

\* C12 witness: the buffer holds a set with a one-byte key, a one-byte value
\* and a two-byte timestamp (35 bytes) followed by a delete (26 bytes).
C12_Witness ==
    /\ wal # None
    /\ ~wal[1].failed
    /\ wal[1].pending = <<SetEntry(<<1>>, <<5>>, 258), DeleteEntry(<<1>>, 1)>>
    /\ Len(wal[1].buf) = 35 + 26

(***************************************************************************)
(* Recovery: WAL::load_from_dir (src/src/lib/wal.rs) and files_with_ext    *)
(* (src/src/lib.rs), one action per step of the function.  A step that     *)
(* fails leaves pc at the step and sets result to "err" (the function      *)
(* returned Err) or "panic" (an unwrap aborted it).                        *)
(***************************************************************************)
MaxFileRecs == 2

RecNames == {9, 10}
RecClocks == {9, 10, 11}

RecRecords ==
    {SetEntry(<<1>>, <<5>>, 1), DeleteEntry(<<1>>, 2), SetEntry(<< >>, << >>, 258)}

\* The first bytes of a record whose write a crash interrupted.
TruncatedTail == SubSeq(Encode(SetEntry(<<1>>, <<5>>, 1)), 1, 12)

\* Corruption: a record header whose key length is 2^64 - 1.
CorruptTail == [i \in 1..9 |-> 255]

\* u128::to_string: the decimal digits, as ASCII.
RECURSIVE to_string(_)
to_string(n) ==
    IF n < 10 THEN <<48 + n>> ELSE to_string(n \div 10) \o <<48 + (n % 10)>>

\* The file name WAL::new builds: timestamp.to_string() + ".wal".
PathOf(n) == to_string(n) \o <<46, 119, 97, 108>>

\* Ord for PathBuf within one directory: the file names, byte by byte.
PathLess(a, b) == BytesLess(PathOf(a), PathOf(b))

\* files_with_ext(dir, "wal") followed by wal_files.sort(): the files of the
\* directory in ascending order of their paths.
SortedWalFiles(dir) ==
    CHOOSE s \in [1..Cardinality(DOMAIN dir) -> DOMAIN dir] :
        \A i, j \in 1..Cardinality(DOMAIN dir) : i < j => PathLess(s[i], s[j])

\* The body of the replay loop on the MemTable.
ApplyEntry(t, e) ==
    IF e.deleted THEN MemDelete(t, e.key, e.timestamp)
    ELSE MemSet(t, e.key, e.value[1], e.timestamp)

RECURSIVE ReplayAll(_, _)
ReplayAll(t, recs) ==
    IF recs = << >> THEN t ELSE ReplayAll(ApplyEntry(t, Head(recs)), Tail(recs))

\* The records the files named by the sequence `names` held when the
\* directory was listed, file after file.
RECURSIVE RecordsOf(_)
RecordsOf(names) ==
    IF names = << >> THEN << >> ELSE origin[Head(names)] \o RecordsOf(Tail(names))

InitRec ==
    /\ entries = MemTableNew.entries
    /\ size = MemTableNew.size
    /\ cap = MemTableNew.cap
    /\ calls = << >>
    /\ clock \in RecClocks
    /\ \E names \in SUBSET RecNames :
          \E recs \in [names -> SeqsUpTo(RecRecords, MaxFileRecs)],
             tail \in [names -> {<< >>, TruncatedTail, CorruptTail}] :
              /\ fs = [f \in names |-> File(EncodeAll(recs[f]) \o tail[f])]
              /\ logged = recs
              /\ flushed = recs
    /\ wal = None
    /\ reader = << >>
    /\ yielded = << >>
    /\ pc = "start"
    /\ result = "none"
    /\ wal_files = << >>
    /\ fidx = 0
    /\ skipped = {}
    /\ origin = << >>
    /\ runs = 0
    /\ faulted = FALSE

Running(at) == pc = at /\ result = "none"

\* files_with_ext and sort; MemTable::new.
RecList ==
    /\ Running("start")
    /\ wal_files' = SortedWalFiles(fs)
    /\ entries' = MemTableNew.entries
    /\ size' = MemTableNew.size
    /\ cap' = MemTableNew.cap
    /\ origin' = IF runs = 0 THEN [f \in DOMAIN fs |-> logged[f]] ELSE origin
    /\ runs' = runs + 1
    /\ pc' = "create"
    /\ UNCHANGED <<calls, walVars, iterVars, result, fidx, skipped>>

\* files_with_ext: read_dir fails, or an entry of the directory has no
\* extension; the unwrap panics.
RecListPanic ==
    /\ Running("start")
    /\ Fault
    /\ result' = "panic"
    /\ UNCHANGED <<memVars, calls, clock, fs, wal, logged, flushed, iterVars, pc, recVars>>

\* let mut new_wal = WAL::new(dir)?  returning Ok.
RecCreate ==
    /\ Running("create")
    /\ fs' = OpenAppend(fs, clock)
    /\ wal' = Some([path |-> clock, buf |-> << >>, linked |-> TRUE,
                    fresh |-> ~Exists(clock), pending |-> << >>,
                    appended |-> << >>, failed |-> FALSE])
    /\ logged' = IF clock \in DOMAIN logged THEN logged ELSE (clock :> << >>) @@ logged
    /\ flushed' = IF clock \in DOMAIN flushed THEN flushed ELSE (clock :> << >>) @@ flushed
    /\ pc' = "open"
    /\ fidx' = 1
    /\ UNCHANGED <<memVars, calls, clock, iterVars, result, wal_files, skipped, origin,
                   runs, faulted>>

\* WAL::new(dir)? fails: load_from_dir returns the error.
RecCreateErr ==
    /\ Running("create")
    /\ Fault
    /\ result' = "err"
    /\ UNCHANGED <<memVars, calls, clock, fs, wal, logged, flushed, iterVars, pc, recVars>>

\* The loop is at a file: WAL::from(wal_file) is Ok and into_iter opens the
\* reader.
RecOpen ==
    /\ Running("open")
    /\ fidx <= Len(wal_files)
    /\ fs' = OpenAppend(fs, wal_files[fidx])
    /\ reader' = fs'[wal_files[fidx]].cache
    /\ pc' = "iter"
    /\ UNCHANGED <<memVars, calls, clock, wal, logged, flushed, yielded, result,
                   recVars, faulted>>

\* WAL::from(wal_file) is Err (the file cannot be opened for appending): the
\* `if let Ok` skips the file.
RecOpenSkip ==
    /\ Running("open")
    /\ fidx <= Len(wal_files)
    /\ Fault
    /\ skipped' = skipped \cup {wal_files[fidx]}
    /\ fidx' = fidx + 1
    /\ UNCHANGED <<memVars, calls, clock, fs, wal, logged, flushed, iterVars, pc, result,
                   wal_files, origin, runs>>

\* WAL::from(wal_file) is Ok but the file cannot be opened for reading:
\* WALIterator::new(self.path).unwrap() panics.
RecOpenPanic ==
    /\ Running("open")
    /\ fidx <= Len(wal_files)
    /\ Fault
    /\ skipped' = skipped \cup {wal_files[fidx]}
    /\ result' = "panic"
    /\ UNCHANGED <<memVars, calls, clock, fs, wal, logged, flushed, iterVars, pc,
                   wal_files, fidx, origin, runs>>

\* One turn of `for entry in wal.into_iter()`: the entry goes to new_tbl and
\* to new_wal; None ends the file.
RecEntry ==
    /\ Running("iter")
    /\ LET r == WALIteratorNext(reader)
       IN  IF r.kind = "some"
           THEN LET t == ApplyEntry(tbl, r.entry[1])
                IN  /\ entries' = t.entries
                    /\ size' = t.size
                    /\ cap' = t.cap
                    /\ wal' = Some(WalAppend(wal[1], r.entry[1]))
                    /\ yielded' = Append(yielded, r.entry[1])
                    /\ reader' = r.rest
                    /\ UNCHANGED <<pc, fidx, result>>
           ELSE /\ reader' = r.rest
                /\ \E abort \in BOOLEAN :
                      IF r.kind = "alloc" /\ abort
                      THEN result' = "panic" /\ UNCHANGED <<pc, fidx>>
                      ELSE pc' = "open" /\ fidx' = fidx + 1 /\ UNCHANGED result
                /\ UNCHANGED <<memVars, wal, yielded>>
    /\ UNCHANGED <<calls, clock, fs, logged, flushed, wal_files, skipped, origin, runs,
                   faulted>>

\* The loop is over.
RecLoopEnd ==
    /\ Running("open")
    /\ fidx > Len(wal_files)
    /\ pc' = "flush"
    /\ UNCHANGED <<memVars, calls, walVars, iterVars, result, recVars>>

\* new_wal.flush() is Ok.
RecFlush ==
    /\ Running("flush")
    /\ LET w == wal[1]
       IN  /\ fs' = WriteThrough(fs, w, w.buf)
           /\ wal' = Some(FlushedHandle(w))
           /\ logged' = [logged EXCEPT ![w.path] = logged[w.path] \o w.pending]
           /\ flushed' = [flushed EXCEPT ![w.path] = logged'[w.path]]
    /\ pc' = "remove"
    /\ fidx' = 1
    /\ UNCHANGED <<memVars, calls, clock, iterVars, result, wal_files, skipped, origin,
                   runs, faulted>>

\* new_wal.flush() is Err after n bytes: the unwrap panics.
RecFlushPanic ==
    /\ Running("flush")
    /\ wal[1].buf # << >>
    /\ Fault
    /\ LET w == wal[1]
       IN  \E n \in 0..(Len(w.buf) - 1) :
               /\ fs' = WriteThrough(fs, w, SubSeq(w.buf, 1, n))
               /\ wal' = Some([w EXCEPT !.buf = SubSeq(w.buf, n + 1, Len(w.buf)),
                                        !.failed = TRUE])
    /\ result' = "panic"
    /\ UNCHANGED <<memVars, calls, clock, logged, flushed, iterVars, pc, recVars>>

\* The directory without file f.
Unlink(dir, f) == [g \in (DOMAIN dir) \ {f} |-> dir[g]]

\* remove_file(f) of the next original file is Ok.  A WAL that has the file
\* open keeps writing to it, out of the directory's sight.
RecRemove ==
    /\ Running("remove")
    /\ fidx <= Len(wal_files)
    /\ Exists(wal_files[fidx])
    /\ fs' = Unlink(fs, wal_files[fidx])
    /\ wal' = IF wal[1].path = wal_files[fidx]
              THEN Some([wal[1] EXCEPT !.linked = FALSE])
              ELSE wal
    /\ fidx' = fidx + 1
    /\ UNCHANGED <<memVars, calls, clock, logged, flushed, iterVars, pc, result,
                   wal_files, skipped, origin, runs, faulted>>

\* remove_file(f) is Err: the unwrap panics.
RecRemovePanic ==
    /\ Running("remove")
    /\ fidx <= Len(wal_files)
    /\ Fault
    /\ result' = "panic"
    /\ UNCHANGED <<memVars, calls, clock, fs, wal, logged, flushed, iterVars, pc, recVars>>

\* Ok((new_wal, new_tbl)).
RecReturn ==
    /\ Running("remove")
    /\ fidx > Len(wal_files)
    /\ pc' = "done"
    /\ result' = "ok"
    /\ UNCHANGED <<memVars, calls, walVars, iterVars, recVars>>

NextRec ==
    \/ RecList
    \/ RecListPanic
    \/ RecCreate
    \/ RecCreateErr
    \/ RecOpen
    \/ RecOpenSkip
    \/ RecOpenPanic
    \/ RecEntry
    \/ RecLoopEnd
    \/ RecFlush
    \/ RecFlushPanic
    \/ RecRemove
    \/ RecRemovePanic
    \/ RecReturn

SpecRec == InitRec /\ [][NextRec]_vars

(***************************************************************************)
(* Recovery run twice: load_from_dir is called again on the directory a    *)
(* first call left, either after the first call returned Ok or after a     *)
(* crash interrupted it.  No I/O error happens; the kernel writes files    *)
(* back whenever it chooses; creating and removing a directory entry is    *)
(* on the device at once.                                                  *)
(***************************************************************************)
MaxRuns == 2
RestartFileRecs == 1

InitRestart ==
    /\ entries = MemTableNew.entries
    /\ size = MemTableNew.size
    /\ cap = MemTableNew.cap
    /\ calls = << >>
    /\ clock \in RecClocks
    /\ \E names \in SUBSET RecNames :
          \E recs \in [names -> SeqsUpTo(RecRecords, RestartFileRecs)],
             tail \in [names -> {<< >>, TruncatedTail}] :
              /\ fs = [f \in names |-> File(EncodeAll(recs[f]) \o tail[f])]
              /\ logged = recs
              /\ flushed = recs
    /\ wal = None
    /\ reader = << >>
    /\ yielded = << >>
    /\ pc = "start"
    /\ result = "none"
    /\ wal_files = << >>
    /\ fidx = 0
    /\ skipped = {}
    /\ origin = << >>
    /\ runs = 0
    /\ faulted = FALSE

\* The values get_current_timestamp() can return at a later call.
LaterClocks == {c \in RecClocks : c >= clock}

\* The machine stops while load_from_dir runs: the process and its buffers
\* are gone, each file holds what had reached the device, and the program is
\* started again.
RecCrash ==
    /\ pc \in {"create", "open", "iter", "flush", "remove"}
    /\ result = "none"
    /\ runs < MaxRuns
    /\ Fault
    /\ fs' = [f \in DOMAIN fs |-> [fs[f] EXCEPT !.cache = fs[f].disk]]
    /\ wal' = None
    /\ reader' = << >>
    /\ yielded' = << >>
    /\ pc' = "start"
    /\ clock' \in LaterClocks
    /\ wal_files' = << >>
    /\ fidx' = 0
    /\ UNCHANGED <<memVars, calls, logged, flushed, result, skipped, origin, runs>>

\* load_from_dir returned Ok; its WAL and MemTable are dropped and the
\* function is called again, with no write in between.
RecAgain ==
    /\ pc = "done"
    /\ result = "ok"
    /\ runs < MaxRuns
    /\ fs' = WriteThrough(fs, wal[1], wal[1].buf)
    /\ wal' = None
    /\ reader' = << >>
    /\ yielded' = << >>
    /\ pc' = "start"
    /\ result' = "none"
    /\ clock' \in LaterClocks
    /\ wal_files' = << >>
    /\ fidx' = 0
    /\ UNCHANGED <<memVars, calls, logged, flushed, skipped, origin, runs, faulted>>

NextRestart ==
    \/ RecList
    \/ RecCreate
    \/ RecOpen
    \/ RecEntry
    \/ RecLoopEnd
    \/ RecFlush
    \/ RecRemove
    \/ RecReturn
    \/ Writeback
    \/ RecCrash
    \/ RecAgain

SpecRestart == InitRestart /\ [][NextRestart]_vars

(***************************************************************************)
(* Claims about recovery, checked under SpecRec                            *)
(***************************************************************************)
Returned == pc = "done" /\ result = "ok"

\* The files of S in ascending order of their timestamps.
ByTimestamp(S) ==
    CHOOSE s \in [1..Cardinality(S) -> S] :
        \A i, j \in 1..Cardinality(S) : i < j => s[i] < s[j]

\* C5: load_from_dir replays the WAL files in ascending order of the timestamp
\* in their file name: the returned MemTable equals the one obtained by applying
\* to an empty MemTable every record of every file, files in increasing numeric
\* timestamp order and records in file order.
C5_ReplayInTimestampOrder ==
    (Returned /\ skipped = {})
        => tbl = ReplayAll(MemTableNew, RecordsOf(ByTimestamp(DOMAIN origin)))

\* C6: after load_from_dir returns Ok, the directory contains exactly one .wal
\* file, the file of the returned WAL; it contains every record of the original
\* files in replay order, and none of the original files exists any more,
\* whatever the clock value at the call.
C6_SingleWalAfterRecover ==
    (Returned /\ skipped = {})
        => /\ DOMAIN fs = {wal[1].path}
           /\ wal[1].linked
           /\ \A f \in DOMAIN origin : f \notin DOMAIN fs
           /\ Iterate(fs[wal[1].path].cache).entries = RecordsOf(wal_files)

\* The original files load_from_dir did not skip, in replay order.
Replayed == SelectSeq(wal_files, LAMBDA f : f \notin skipped)

\* C9: a WAL file that is unreadable or corrupt is skipped: load_from_dir does
\* not abort on it, replays every record of every other file into the MemTable
\* and the new WAL, and returns normally.
C9_BadFileIsSkipped ==
    /\ ~(pc \in {"open", "iter"} /\ result = "panic")
    /\ Returned => /\ yielded = RecordsOf(Replayed)
                   /\ wal[1].appended = RecordsOf(Replayed)
                   /\ tbl = ReplayAll(MemTableNew, RecordsOf(Replayed))

\* C10: every I/O failure of a WAL write or flush is surfaced as an error
\* result: load_from_dir returns Err when creating or flushing the new WAL
\* fails; the failure is not swallowed and does not abort the process.
C10_WriteFailuresReturnErr ==
    (pc \in {"create", "flush"} /\ result # "none") => result = "err"

\* C11: WAL::new opens a new file: the file it returns did not exist in the
\* directory before the call and is empty, so a WAL created while other .wal
\* files exist never shares a file with them.  (load_from_dir calls WAL::new
\* on a directory that holds files, at any clock value.)
C11_NewOpensNewFile ==
    (wal # None /\ wal[1].appended = << >>)
        => /\ wal[1].fresh
           /\ fs[wal[1].path].cache = << >>

\* recs is a run of consecutive records of log.
Contains(log, recs) ==
    \E i \in 0..(Len(log) - Len(recs)) : SubSeq(log, i + 1, i + Len(recs)) = recs

\* C18: during load_from_dir no original WAL file is deleted before the new WAL
\* holds every record of it: at every moment of a recovery, every record the
\* original files held when the recovery started is still returned by iterating
\* some .wal file of the directory.
C18_RecordsSurviveRecovery ==
    \A f \in DOMAIN origin :
        \/ origin[f] = << >>
        \/ /\ f \in DOMAIN fs
           /\ IsPrefix(origin[f], Iterate(fs[f].cache).entries)
        \/ \E g \in DOMAIN fs : Contains(Iterate(fs[g].cache).entries, origin[f])

(***************************************************************************)
(* Claims about a second recovery, checked under SpecRestart               *)
(***************************************************************************)
\* The records an uninterrupted load_from_dir replays from the original
\* files, in its replay order.
OriginalRecords == RecordsOf(SortedWalFiles(origin))

\* C19: if load_from_dir is interrupted by a crash at any point and is then
\* run again on the directory, the MemTable it returns has the same entries
\* (key, value, timestamp, deleted) as the one an uninterrupted recovery of the
\* original files returns.
C19_RecoveryIsCrashSafe ==
    (Returned /\ faulted)
        => entries = ReplayAll(MemTableNew, OriginalRecords).entries

\* C20: a second load_from_dir on the directory a first successful one left,
\* with no write in between and at a clock value not earlier than the first
\* (the same millisecond included), returns a MemTable with the same entries
\* and leaves exactly one .wal file holding the same record sequence.
C20_RecoveryIsIdempotent ==
    (Returned /\ runs = 2 /\ ~faulted)
        => /\ entries = ReplayAll(MemTableNew, OriginalRecords).entries
           /\ DOMAIN fs = {wal[1].path}
           /\ wal[1].linked
           /\ Iterate(fs[wal[1].path].cache).entries = OriginalRecords

====
